---- MODULE Spec2Model ----
(***************************************************************************)
(* Will.IAM: service accounts, their roles and permissions, the create /   *)
(* update / authenticate use cases and the HTTP handlers in front of them. *)
(*                                                                         *)
(* Storage (package repositories), the permission codec and matcher        *)
(* (package models) and the error types (package errors) are modelled from *)
(* the specification; the use cases and the handlers are modelled from the *)
(* source.                                                                 *)
(***************************************************************************)
EXTENDS Integers, Sequences, FiniteSets, Bags, TLC

VARIABLES db, prev, last, ops, reqs, http

vars == <<db, prev, last, ops, reqs, http>>

(***************************************************************************)
(* Bounds of the model.                                                    *)
(***************************************************************************)
\* requests served in one behaviour of Spec
MaxOps == 2

(***************************************************************************)
(* HTTP statuses written by the handlers.                                  *)
(***************************************************************************)
StatusOK == 200
StatusCreated == 201
StatusUnauthorized == 401
StatusUnprocessableEntity == 422
StatusInternalServerError == 500
\* errors.UserDoesntHaveAllPermissionsError.StatusCode()
UserDoesntHaveAllPermissionsErrorStatusCode == 403

(***************************************************************************)
(* models: authentication types, ownership levels, permissions.            *)
(***************************************************************************)
OAuth2 == "oauth2"
KeyPair == "keypair"
\* the zero value of models.AuthenticationType
NoAuthenticationType == ""

AuthenticationTypeValid(t) == t \in {OAuth2, KeyPair}

Owner == "Owner"
Lender == "Lender"
OwnershipLevels == {Owner, Lender}

LevelRank(l) == IF l = Owner THEN 2 ELSE 1

Wildcard == <<"*">>

\* a held resource path that is a proper ancestor of the requested one
IsAncestor(h, r) ==
    /\ Len(h) < Len(r)
    /\ \A i \in 1..Len(h) : h[i] = r[i]

ResourceMatches(h, r) == h = Wildcard \/ h = r \/ IsAncestor(h, r)

\* whether held permission h satisfies requested permission p
Satisfies(h, p) ==
    /\ h.service = p.service
    /\ h.action = p.action
    /\ LevelRank(h.ownershipLevel) >= LevelRank(p.ownershipLevel)
    /\ ResourceMatches(h.resource, p.resource)

\* Permission.IsPresent: p is satisfied by one of the held permissions
IsPresent(p, held) == \E h \in held : Satisfies(h, p)

\* A permission string is kept as the sequence of its "::"-separated fields,
\* the resource field as the sequence of its "/"-separated segments.
BuildPermissionOK(str) ==
    /\ Len(str) = 4
    /\ \A i \in 1..3 : str[i] # ""
    /\ str[4] # <<>>
    /\ str[2] \in OwnershipLevels

BuildPermission(str) ==
    [roleID |-> 0, service |-> str[1], ownershipLevel |-> str[2],
     action |-> str[3], resource |-> str[4], alias |-> ""]

\* Permission.String
PermissionString(p) == <<p.service, p.ownershipLevel, p.action, p.resource>>

\* BuildPermissions: all-or-nothing over the list
BuildPermissions(strs) ==
    IF \A i \in 1..Len(strs) : BuildPermissionOK(strs[i])
    THEN [err |-> FALSE, permissions |-> [i \in 1..Len(strs) |-> BuildPermission(strs[i])]]
    ELSE [err |-> TRUE, permissions |-> <<>>]

(***************************************************************************)
(* repositories: the store and its queries.                                *)
(*   sas      - set of service accounts                                    *)
(*   roles    - set of roles                                               *)
(*   bindings - bag of role bindings (rows, so a pair may be there twice)  *)
(*   perms    - bag of permissions                                         *)
(***************************************************************************)
ServiceAccount(id, name, email, picture, authType, baseRoleID, keyID, keySecret) ==
    [id |-> id, name |-> name, email |-> email, picture |-> picture,
     authenticationType |-> authType, baseRoleID |-> baseRoleID,
     keyID |-> keyID, keySecret |-> keySecret]

Role(id, isBaseRole) == [id |-> id, isBaseRole |-> isBaseRole]

RoleBinding(saID, roleID) == [serviceAccountID |-> saID, roleID |-> roleID]

SAIDs(d) == {sa.id : sa \in d.sas}
RoleIDs(d) == {r.id : r \in d.roles}

\* ServiceAccounts.Get
GetSA(d, id) == CHOOSE sa \in d.sas : sa.id = id

\* Roles.ForServiceAccountID
RolesBoundTo(d, saID) ==
    {b.roleID : b \in {x \in BagToSet(d.bindings) : x.serviceAccountID = saID}}

\* Permissions.ForRole
ForRole(d, roleID) == {p \in BagToSet(d.perms) : p.roleID = roleID}

\* Permissions.ForServiceAccount: the permissions of the base role and of
\* every bound role
ForServiceAccount(d, saID) ==
    LET base == {sa.baseRoleID : sa \in {x \in d.sas : x.id = saID}}
    IN  {p \in BagToSet(d.perms) : p.roleID \in base \cup RolesBoundTo(d, saID)}

(***************************************************************************)
(* repositories.WithPGTx: the calls a transaction's body makes act on a    *)
(* working copy; the copy is committed when the body returns nil and       *)
(* dropped when it returns an error.                                       *)
(*   d      - the working copy                                             *)
(*   n      - storage calls made so far                                    *)
(*   failAt - the storage call that fails (0: none)                        *)
(*   err    - the body has returned an error                               *)
(*   failed - a storage call has failed                                    *)
(***************************************************************************)
TxBegin(d, failAt) ==
    [d |-> d, n |-> 0, failAt |-> failAt, err |-> FALSE, failed |-> FALSE]

\* one storage call whose effect is newd, followed by
\* "if err != nil { return err }"
Call(t, newd) ==
    IF t.err THEN t
    ELSE IF t.n + 1 = t.failAt
         THEN [t EXCEPT !.n = @ + 1, !.err = TRUE, !.failed = TRUE]
         ELSE [t EXCEPT !.n = @ + 1, !.d = newd]

\* the body returns err without a storage call having failed
Return(t) == IF t.err THEN t ELSE [t EXCEPT !.err = TRUE]

WithPGTx(d, t) == IF t.err THEN d ELSE t.d

\* Roles.Create
RolesCreate(d, r) == [d EXCEPT !.roles = @ \cup {r}, !.nextRole = @ + 1]
\* ServiceAccounts.Create
ServiceAccountsCreate(d, sa) == [d EXCEPT !.sas = @ \cup {sa}, !.nextSA = @ + 1]
\* ServiceAccounts.Update: the row with sa's id becomes sa
ServiceAccountsUpdate(d, sa) ==
    [d EXCEPT !.sas = {x \in @ : x.id # sa.id} \cup {y \in {sa} : sa.id \in SAIDs(d)}]
\* Roles.Bind
RolesBind(d, b) == [d EXCEPT !.bindings = @ (+) SetToBag({b})]
\* ServiceAccounts.DropBindings: every binding of the account but the one
\* to its base role
DropBindings(d, saID) ==
    LET base == {sa.baseRoleID : sa \in {x \in d.sas : x.id = saID}}
        keep == {b \in BagToSet(d.bindings) :
                    b.serviceAccountID # saID \/ b.roleID \in base}
    IN  [d EXCEPT !.bindings = [b \in keep |-> d.bindings[b]]]
\* Roles.DropPermissions
DropPermissions(d, roleID) ==
    LET keep == {p \in BagToSet(d.perms) : p.roleID # roleID}
    IN  [d EXCEPT !.perms = [p \in keep |-> d.perms[p]]]
\* Permissions.Create
PermissionsCreate(d, p) == [d EXCEPT !.perms = @ (+) SetToBag({p})]

(***************************************************************************)
(* models: building service accounts.  A key pair is random; the model     *)
(* draws it from the position of the account in the store.                 *)
(***************************************************************************)
\* a string that the handlers split is kept as the sequence of its atoms: the
\* separators " " and ":" and words that hold neither
NoString == <<>>

KeyIDs == <<<<"k1">>, <<"k2">>, <<"k3">>, <<"k4">>, <<"k5">>, <<"k6">>>>
KeySecrets == <<<<"s1">>, <<"s2">>, <<"s3">>, <<"s4">>, <<"s5">>, <<"s6">>>>

BuildOAuth2ServiceAccount(name, email) ==
    ServiceAccount(0, name, email, "", OAuth2, 0, NoString, NoString)

BuildKeyPairServiceAccount(d, name) ==
    ServiceAccount(0, name, "", "", KeyPair, 0, KeyIDs[d.nextSA], KeySecrets[d.nextSA])

(***************************************************************************)
(* usecases: service accounts.                                             *)
(***************************************************************************)
\* createServiceAccount without the Roles.Bind of the account to its base role
createServiceAccount_Unbound(t, sa0) ==
    LET id == t.d.nextSA
        r  == Role(t.d.nextRole, TRUE)
        sa == [sa0 EXCEPT !.id = id, !.baseRoleID = r.id]
        t1 == Call(t, RolesCreate(t.d, r))
        t2 == Call(t1, ServiceAccountsCreate(t1.d, sa))
    IN  t2

\* createServiceAccount: a new id, the base role, the account, the binding
\* of the account to its base role
createServiceAccount(t, sa0) ==
    LET id == t.d.nextSA
        r  == Role(t.d.nextRole, TRUE)
        sa == [sa0 EXCEPT !.id = id, !.baseRoleID = r.id]
        t1 == Call(t, RolesCreate(t.d, r))
        t2 == Call(t1, ServiceAccountsCreate(t1.d, sa))
        t3 == Call(t2, RolesBind(t2.d, RoleBinding(id, r.id)))
    IN  t3

\* serviceAccounts.Create
Create(d, sa0, failAt) == createServiceAccount(TxBegin(d, failAt), sa0)

RECURSIVE BindAll(_, _, _, _)
\* "for i := range rolesIDs { Bind }", skipping the ids in skip
BindAll(t, saID, rolesIDs, skip) ==
    IF rolesIDs = <<>> THEN t
    ELSE IF Head(rolesIDs) \in skip
         THEN BindAll(t, saID, Tail(rolesIDs), skip)
         ELSE BindAll(Call(t, RolesBind(t.d, RoleBinding(saID, Head(rolesIDs)))),
                      saID, Tail(rolesIDs), skip)

\* CreatePermissionOf with the error of Permissions.Create dropped
CreatePermissionOf_ErrorDropped(t, p, baseRoleID) ==
    IF t.err THEN t
    ELSE IF t.n + 1 = t.failAt
         THEN [t EXCEPT !.n = @ + 1, !.failed = TRUE]
         ELSE [t EXCEPT !.n = @ + 1,
                        !.d = PermissionsCreate(t.d, [p EXCEPT !.roleID = baseRoleID])]

\* one turn of "for i := range sawn.Permissions"
CreatePermissionOf(t, p, baseRoleID) ==
    Call(t, PermissionsCreate(t.d, [p EXCEPT !.roleID = baseRoleID]))

RECURSIVE CreatePermissions(_, _, _)
CreatePermissions(t, permissions, baseRoleID) ==
    IF permissions = <<>> THEN t
    ELSE CreatePermissions(CreatePermissionOf(t, Head(permissions), baseRoleID),
                           Tail(permissions), baseRoleID)

\* the body of CreateWithNested's transaction
CreateWithNestedTx(d, sawn, failAt) ==
    LET t0  == TxBegin(d, failAt)
        id  == d.nextSA
        rid == d.nextRole
        sa0 == IF sawn.authenticationType = OAuth2
               THEN BuildOAuth2ServiceAccount(sawn.name, sawn.email)
               ELSE BuildKeyPairServiceAccount(d, sawn.name)
        t1  == createServiceAccount(t0, sa0)
        t2  == BindAll(t1, id, sawn.rolesIDs, {})
        t3  == CreatePermissions(t2, sawn.permissions, rid)
    IN  t3

\* UpdateWithNestedTx without Roles.DropPermissions
UpdateWithNestedTx_PermissionsKept(d, sawn, failAt) ==
    LET t0 == TxBegin(d, failAt)
    IN  IF sawn.id \notin SAIDs(d)
        THEN Return(Call(t0, d))
        ELSE LET sa  == GetSA(d, sawn.id)
                 sa1 == [sa EXCEPT !.name = sawn.name, !.email = sawn.name]
                 t1  == Call(t0, d)
                 t2  == Call(t1, ServiceAccountsUpdate(t1.d, sa1))
                 t3  == Call(t2, DropBindings(t2.d, sawn.id))
                 t4  == BindAll(t3, sa.id, sawn.rolesIDs, {sa.baseRoleID})
                 t5  == Call(t4, t4.d)
                 t6  == CreatePermissions(t5, sawn.permissions, sa.baseRoleID)
             IN  t6

\* UpdateWithNestedTx without "if roleID == sa.BaseRoleID { continue }"
UpdateWithNestedTx_BaseRoleBound(d, sawn, failAt) ==
    LET t0 == TxBegin(d, failAt)
    IN  IF sawn.id \notin SAIDs(d)
        THEN Return(Call(t0, d))
        ELSE LET sa  == GetSA(d, sawn.id)
                 sa1 == [sa EXCEPT !.name = sawn.name, !.email = sawn.name]
                 t1  == Call(t0, d)
                 t2  == Call(t1, ServiceAccountsUpdate(t1.d, sa1))
                 t3  == Call(t2, DropBindings(t2.d, sawn.id))
                 t4  == BindAll(t3, sa.id, sawn.rolesIDs, {})
                 t5  == Call(t4, DropPermissions(t4.d, sa.baseRoleID))
                 t6  == CreatePermissions(t5, sawn.permissions, sa.baseRoleID)
             IN  t6

\* the body of UpdateWithNested's transaction
UpdateWithNestedTx(d, sawn, failAt) ==
    LET t0 == TxBegin(d, failAt)
    IN  IF sawn.id \notin SAIDs(d)
        THEN \* ServiceAccounts.Get: EntityNotFoundError
             Return(Call(t0, d))
        ELSE LET sa  == GetSA(d, sawn.id)
                 sa1 == [sa EXCEPT !.name = sawn.name, !.email = sawn.name]
                 t1  == Call(t0, d)
                 t2  == Call(t1, ServiceAccountsUpdate(t1.d, sa1))
                 t3  == Call(t2, DropBindings(t2.d, sawn.id))
                 t4  == BindAll(t3, sa.id, sawn.rolesIDs, {sa.baseRoleID})
                 t5  == Call(t4, DropPermissions(t4.d, sa.baseRoleID))
                 t6  == CreatePermissions(t5, sawn.permissions, sa.baseRoleID)
             IN  t6

\* serviceAccounts.CreateWithNested: [d, err, failed, id]
CreateWithNested(d, sawn, failAt) ==
    LET t == CreateWithNestedTx(d, sawn, failAt)
    IN  [d |-> WithPGTx(d, t), err |-> t.err, failed |-> t.failed, id |-> d.nextSA]

\* serviceAccounts.UpdateWithNested
UpdateWithNested(d, sawn, failAt) ==
    LET t == UpdateWithNestedTx(d, sawn, failAt)
    IN  [d |-> WithPGTx(d, t), err |-> t.err, failed |-> t.failed, id |-> sawn.id]

\* serviceAccounts.HasPermissions: one answer per requested permission
HasPermissions(d, saID, permissions) ==
    [i \in 1..Len(permissions) |-> IsPresent(permissions[i], ForServiceAccount(d, saID))]

\* HasAllOwnerPermissions answering no when nothing is asked for
HasAllOwnerPermissions_EmptyDenied(d, saID, permissions) ==
    LET psCpy == [i \in 1..Len(permissions) |->
                    [permissions[i] EXCEPT !.ownershipLevel = Owner]]
        has   == HasPermissions(d, saID, psCpy)
    IN  [has |-> permissions # <<>> /\ \A i \in 1..Len(has) : has[i],
         permissions |-> permissions]

\* HasAllOwnerPermissions asking for the levels as submitted
HasAllOwnerPermissions_LevelKept(d, saID, permissions) ==
    LET has == HasPermissions(d, saID, permissions)
    IN  [has |-> \A i \in 1..Len(has) : has[i], permissions |-> permissions]

\* HasAllOwnerPermissions forcing Owner on the caller's list itself
HasAllOwnerPermissions_InPlace(d, saID, permissions) ==
    LET psCpy == [i \in 1..Len(permissions) |->
                    [permissions[i] EXCEPT !.ownershipLevel = Owner]]
        has   == HasPermissions(d, saID, psCpy)
    IN  [has |-> \A i \in 1..Len(has) : has[i], permissions |-> psCpy]

\* serviceAccounts.HasAllOwnerPermissions: the answer, and the caller's list
\* as the call leaves it
HasAllOwnerPermissions(d, saID, permissions) ==
    LET psCpy == [i \in 1..Len(permissions) |->
                    [permissions[i] EXCEPT !.ownershipLevel = Owner]]
        has   == HasPermissions(d, saID, psCpy)
    IN  [has |-> \A i \in 1..Len(has) : has[i], permissions |-> permissions]

RECURSIVE RolesPermissions(_, _)
\* "ps = append(ps, rps...)" over rolesIDs; the order within one role is
\* the store's
RolesPermissions(d, rolesIDs) ==
    IF rolesIDs = <<>> THEN {}
    ELSE ForRole(d, Head(rolesIDs)) \cup RolesPermissions(d, Tail(rolesIDs))

SetToSeq(S) ==
    LET RECURSIVE F(_)
        F(T) == IF T = {} THEN <<>>
                ELSE LET x == CHOOSE y \in T : TRUE IN <<x>> \o F(T \ {x})
    IN  F(S)

\* serviceAccounts.HasAllOwnerRolesPermissions
HasAllOwnerRolesPermissions(d, saID, rolesIDs) ==
    HasAllOwnerPermissions(d, saID, SetToSeq(RolesPermissions(d, rolesIDs))).has

\* Validate without the rule on the email
Validate_EmailOptional(sawn) ==
    {f \in {"name"} : sawn.name = ""}
    \cup {f \in {"authenticatonType"} : ~AuthenticationTypeValid(sawn.authenticationType)}

\* ServiceAccountWithNested.Validate: the fields in error
Validate(sawn) ==
    {f \in {"name"} : sawn.name = ""}
    \cup {f \in {"authenticatonType"} : ~AuthenticationTypeValid(sawn.authenticationType)}
    \cup {f \in {"email"} : sawn.authenticationType = OAuth2 /\ sawn.email = ""}

(***************************************************************************)
(* api: the create and update handlers.  A request body is                 *)
(*   [name, email, authenticationType, rolesIDs, permissionsStrings,       *)
(*    permissionsAliases]                                                  *)
(* ioErr names the step of the authorization that fails on I/O:            *)
(* "body" (reading or decoding the body), "roles", "perms", or "none".     *)
(***************************************************************************)
ErrNone == "none"
ErrInsufficient == "UserDoesntHaveAllPermissionsError"
ErrOther == "error"

SawnOf(body) ==
    [id |-> 0, name |-> body.name, email |-> body.email,
     authenticationType |-> body.authenticationType,
     rolesIDs |-> body.rolesIDs,
     permissionsStrings |-> body.permissionsStrings,
     permissionsAliases |-> body.permissionsAliases,
     permissions |-> <<>>]

\* processServiceAccountWithNestedFromReq up to the check of the roles
processRoles(d, saID, body, ioErr) ==
    IF ioErr = "body" THEN [err |-> ErrOther, sawn |-> SawnOf(body)]
    ELSE IF ioErr = "roles" THEN [err |-> ErrOther, sawn |-> SawnOf(body)]
    ELSE IF ~HasAllOwnerRolesPermissions(d, saID, body.rolesIDs)
         THEN [err |-> ErrInsufficient, sawn |-> SawnOf(body)]
         ELSE [err |-> ErrNone, sawn |-> SawnOf(body)]

\* "if alias, ok := sawn.PermissionsAliases[str]; ok { Alias = alias }"
WithAliases(permissions, strs, aliases) ==
    [i \in 1..Len(permissions) |->
        IF strs[i] \in DOMAIN aliases
        THEN [permissions[i] EXCEPT !.alias = aliases[strs[i]]]
        ELSE permissions[i]]

\* processServiceAccountWithNestedFromReq from BuildPermissions on
processPermissions(d, saID, sawn, ioErr) ==
    LET built == BuildPermissions(sawn.permissionsStrings)
        ps    == WithAliases(built.permissions, sawn.permissionsStrings,
                             sawn.permissionsAliases)
        chk   == HasAllOwnerPermissions(d, saID, ps)
    IN  IF built.err THEN [err |-> ErrOther, sawn |-> sawn]
        ELSE IF ioErr = "perms" THEN [err |-> ErrOther, sawn |-> sawn]
        ELSE IF ~chk.has
             THEN [err |-> ErrInsufficient,
                   sawn |-> [sawn EXCEPT !.permissions = chk.permissions]]
             ELSE [err |-> ErrNone,
                   sawn |-> [sawn EXCEPT !.permissions = chk.permissions]]

processServiceAccountWithNestedFromReq(d, saID, body, ioErr) ==
    LET r == processRoles(d, saID, body, ioErr)
    IN  IF r.err # ErrNone THEN r ELSE processPermissions(d, saID, r.sawn, ioErr)

\* the status the handlers write for an error of
\* processServiceAccountWithNestedFromReq
ProcessErrorStatus(err) ==
    IF err = ErrInsufficient
    THEN UserDoesntHaveAllPermissionsErrorStatusCode
    ELSE StatusInternalServerError

\* what a handler answers: the store it leaves, the status, whether the
\* use case was called, whether a storage call of it failed, the id of the
\* account written, the fields in error
Answer(d, status, called, failed, id, fields) ==
    [d |-> d, status |-> status, called |-> called, failed |-> failed,
     id |-> id, fields |-> fields]

\* the handlers from "v := sawn.Validate()" on
createValidated(d, sawn, failAt) ==
    IF Validate(sawn) # {}
    THEN Answer(d, StatusUnprocessableEntity, FALSE, FALSE, 0, Validate(sawn))
    ELSE LET c == CreateWithNested(d, sawn, failAt)
         IN  Answer(c.d, IF c.err THEN StatusInternalServerError ELSE StatusCreated,
                    TRUE, c.failed, c.id, {})

updateValidated(d, id, sawn, failAt) ==
    IF Validate(sawn) # {}
    THEN Answer(d, StatusUnprocessableEntity, FALSE, FALSE, 0, Validate(sawn))
    ELSE LET u == UpdateWithNested(d, [sawn EXCEPT !.id = id], failAt)
         IN  Answer(u.d, IF u.err THEN StatusInternalServerError ELSE StatusOK,
                    TRUE, u.failed, u.id, {})

serviceAccountsCreateHandler(d, saID, body, ioErr, failAt) ==
    LET p == processServiceAccountWithNestedFromReq(d, saID, body, ioErr)
    IN  IF p.err # ErrNone
        THEN Answer(d, ProcessErrorStatus(p.err), FALSE, FALSE, 0, {})
        ELSE createValidated(d, p.sawn, failAt)

serviceAccountsUpdateHandler(d, saID, id, body, ioErr, failAt) ==
    LET p == processServiceAccountWithNestedFromReq(d, saID, body, ioErr)
    IN  IF p.err # ErrNone
        THEN Answer(d, ProcessErrorStatus(p.err), FALSE, FALSE, 0, {})
        ELSE updateValidated(d, id, p.sawn, failAt)

(***************************************************************************)
(* usecases: authentication.  The OAuth2 provider answers                  *)
(*   [err, email, accessToken, picture]                                    *)
(* and ForEmail answers rows: the account found, or no account.            *)
(***************************************************************************)
ErrNotFound == "EntityNotFoundError"

\* ServiceAccounts.ForEmail: the accounts with this email
ForEmail(d, email) == {sa \in d.sas : sa.email = email}

\* what the lookup may answer: one of the accounts found, or none
ForEmailAnswers(d, email) ==
    IF ForEmail(d, email) = {} THEN {{}} ELSE {{sa} : sa \in ForEmail(d, email)}

AccessTokenAuth(saID, accessToken, email) ==
    [serviceAccountID |-> saID, accessToken |-> accessToken, email |-> email]

NoAuth == AccessTokenAuth(0, NoString, "")

AuthAnswer(d, err, created, failed, auth) ==
    [d |-> d, err |-> err, created |-> created, failed |-> failed, auth |-> auth]

\* AuthenticateAccessTokenWrite without 'authResult.Picture != ""'
AuthenticateAccessTokenWrite_EmptyPictureWritten(d, authResult, rows, failAt) ==
    IF rows = {}
    THEN LET sa == ServiceAccount(0, authResult.email, authResult.email,
                                  authResult.picture, NoAuthenticationType, 0, NoString, NoString)
             t  == Create(d, sa, failAt)
         IN  IF t.err
             THEN AuthAnswer(WithPGTx(d, t), ErrOther, FALSE, t.failed, NoAuth)
             ELSE AuthAnswer(WithPGTx(d, t), ErrNone, TRUE, t.failed,
                             AccessTokenAuth(d.nextSA, authResult.accessToken,
                                             authResult.email))
    ELSE LET sa == CHOOSE x \in rows : TRUE
             t  == Call(TxBegin(d, failAt),
                        ServiceAccountsUpdate(d, [sa EXCEPT !.picture = authResult.picture]))
         IN  IF authResult.picture # sa.picture
             THEN IF t.err
                  THEN AuthAnswer(d, ErrOther, FALSE, t.failed, NoAuth)
                  ELSE AuthAnswer(t.d, ErrNone, FALSE, t.failed,
                                  AccessTokenAuth(sa.id, authResult.accessToken,
                                                  authResult.email))
             ELSE AuthAnswer(d, ErrNone, FALSE, FALSE,
                             AccessTokenAuth(sa.id, authResult.accessToken,
                                             authResult.email))

\* AuthenticateAccessToken after the lookup: rows is ForEmail's answer
AuthenticateAccessTokenWrite(d, authResult, rows, failAt) ==
    IF rows = {}
    THEN LET sa == ServiceAccount(0, authResult.email, authResult.email,
                                  authResult.picture, NoAuthenticationType, 0, NoString, NoString)
             t  == Create(d, sa, failAt)
         IN  IF t.err
             THEN AuthAnswer(WithPGTx(d, t), ErrOther, FALSE, t.failed, NoAuth)
             ELSE AuthAnswer(WithPGTx(d, t), ErrNone, TRUE, t.failed,
                             AccessTokenAuth(d.nextSA, authResult.accessToken,
                                             authResult.email))
    ELSE LET sa == CHOOSE x \in rows : TRUE
             t  == Call(TxBegin(d, failAt),
                        ServiceAccountsUpdate(d, [sa EXCEPT !.picture = authResult.picture]))
         IN  IF authResult.picture # "" /\ authResult.picture # sa.picture
             THEN IF t.err
                  THEN AuthAnswer(d, ErrOther, FALSE, t.failed, NoAuth)
                  ELSE AuthAnswer(t.d, ErrNone, FALSE, t.failed,
                                  AccessTokenAuth(sa.id, authResult.accessToken,
                                                  authResult.email))
             ELSE AuthAnswer(d, ErrNone, FALSE, FALSE,
                             AccessTokenAuth(sa.id, authResult.accessToken,
                                             authResult.email))

\* serviceAccounts.AuthenticateAccessToken; lookupErr: ForEmail fails with
\* an error that is no EntityNotFoundError
AuthenticateAccessToken(d, authResult, rows, lookupErr, failAt) ==
    IF authResult.err # ErrNone
    THEN AuthAnswer(d, authResult.err, FALSE, FALSE, NoAuth)
    ELSE IF lookupErr
         THEN AuthAnswer(d, ErrOther, FALSE, FALSE, NoAuth)
         ELSE AuthenticateAccessTokenWrite(d, authResult, rows, failAt)

\* ServiceAccounts.ForKeyPair: the accounts with this key pair
ForKeyPair(d, keyID, keySecret) ==
    {sa \in d.sas : sa.keyID = keyID /\ sa.keySecret = keySecret}

\* serviceAccounts.AuthenticateKeyPair
AuthenticateKeyPair(d, keyID, keySecret, lookupErr) ==
    IF lookupErr THEN [err |-> ErrOther, serviceAccountID |-> 0, name |-> ""]
    ELSE IF ForKeyPair(d, keyID, keySecret) = {}
         THEN [err |-> ErrNotFound, serviceAccountID |-> 0, name |-> ""]
         ELSE LET sa == CHOOSE x \in ForKeyPair(d, keyID, keySecret) : TRUE
              IN  [err |-> ErrNone, serviceAccountID |-> sa.id, name |-> sa.name]

(***************************************************************************)
(* api: authMiddleware.  The Authorization header is a string (a sequence  *)
(* of atoms).  An exchange is the header received and what the middleware  *)
(* did with it:                                                            *)
(*   status    - the status the middleware wrote (0: none)                 *)
(*   next      - the times the next handler was invoked                    *)
(*   ctxID     - the service account id put in the request context         *)
(*   useCase   - the authentication use case called ("none" if none)       *)
(*   err       - the error of the use case                                 *)
(*   panicked  - the handler panicked                                      *)
(*   headers   - the response headers set                                  *)
(***************************************************************************)
RECURSIVE Split(_, _)
\* strings.Split(s, sep): the pieces of s between the occurrences of sep
Split(s, sep) ==
    IF s = <<>> THEN << <<>> >>
    ELSE LET rest == Split(Tail(s), sep)
         IN  IF Head(s) = sep
             THEN << <<>> >> \o rest
             ELSE << <<Head(s)>> \o rest[1] >> \o Tail(rest)

Exchange(header, d, status, next, ctxID, useCase, err, panicked, headers) ==
    [header |-> header, d |-> d, status |-> status, next |-> next, ctxID |-> ctxID,
     useCase |-> useCase, err |-> err, panicked |-> panicked, headers |-> headers]

NoExchange == Exchange(<<>>, <<>>, 0, 0, 0, "idle", ErrNone, FALSE, {})

\* authKeyPair without the "return" after WriteHeader(500)
authKeyPair_NoReturn(d, header, credential, lookupErr) ==
    LET keyPair == Split(credential, ":")
    IN  IF Len(keyPair) < 2
        THEN Exchange(header, d, 0, 0, 0, "none", ErrNone, TRUE, {})
        ELSE LET r == AuthenticateKeyPair(d, keyPair[1], keyPair[2], lookupErr)
             IN  IF r.err # ErrNone
                 THEN Exchange(header, d, StatusInternalServerError, 1, r.serviceAccountID,
                               "AuthenticateKeyPair", r.err, FALSE,
                               {<<"x-service-account-name", r.name>>})
                 ELSE Exchange(header, d, 0, 1, r.serviceAccountID,
                               "AuthenticateKeyPair", ErrNone, FALSE,
                               {<<"x-service-account-name", r.name>>})

\* the KeyPair branch of authMiddleware
authKeyPair(d, header, credential, lookupErr) ==
    LET keyPair == Split(credential, ":")
    IN  IF Len(keyPair) < 2
        THEN \* keyPair[1]: index out of range
             Exchange(header, d, 0, 0, 0, "none", ErrNone, TRUE, {})
        ELSE LET r == AuthenticateKeyPair(d, keyPair[1], keyPair[2], lookupErr)
             IN  IF r.err # ErrNone
                 THEN Exchange(header, d, StatusInternalServerError, 0, 0,
                               "AuthenticateKeyPair", r.err, FALSE, {})
                 ELSE Exchange(header, d, 0, 1, r.serviceAccountID,
                               "AuthenticateKeyPair", ErrNone, FALSE,
                               {<<"x-service-account-name", r.name>>})

\* the Bearer branch of authMiddleware
authBearer(d, header, accessToken, authResult, rows, lookupErr, failAt) ==
    LET r == AuthenticateAccessToken(d, authResult, rows, lookupErr, failAt)
    IN  IF r.err = ErrNotFound
        THEN Exchange(header, r.d, StatusUnauthorized, 0, 0,
                      "AuthenticateAccessToken", r.err, FALSE, {})
        ELSE IF r.err # ErrNone
        THEN Exchange(header, r.d, StatusInternalServerError, 0, 0,
                      "AuthenticateAccessToken", r.err, FALSE, {})
        ELSE Exchange(header, r.d, 0, 1, r.auth.serviceAccountID,
                      "AuthenticateAccessToken", ErrNone, FALSE,
                      {<<"x-email", r.auth.email>>}
                      \cup {<<"x-access-token", t>> :
                              t \in {x \in {r.auth.accessToken} : x # accessToken}})

\* authMiddleware: authResult is the provider's answer, rows ForEmail's
authMiddleware(d, header, authResult, rows, lookupErr, failAt) ==
    LET parts == Split(header, " ")
    IN  IF header = <<>> \/ Len(parts) # 2
        THEN Exchange(header, d, StatusUnauthorized, 0, 0, "none", ErrNone, FALSE, {})
        ELSE IF parts[1] = <<"KeyPair">>
        THEN authKeyPair(d, header, parts[2], lookupErr)
        ELSE IF parts[1] = <<"Bearer">>
        THEN authBearer(d, header, parts[2], authResult, rows, lookupErr, failAt)
        ELSE Exchange(header, d, StatusUnauthorized, 0, 0, "none", ErrNone, FALSE, {})

(***************************************************************************)
(* The store a deployment starts from: the root account (a key pair        *)
(* account holding Owner of every resource of svc/act) and two shared      *)
(* roles.                                                                  *)
(***************************************************************************)
Permission(roleID, level, resource) ==
    [roleID |-> roleID, service |-> "svc", ownershipLevel |-> level,
     action |-> "act", resource |-> resource, alias |-> ""]

SeedStore ==
    [sas      |-> {ServiceAccount(1, "root", "", "", KeyPair, 1, KeyIDs[1], KeySecrets[1])},
     roles    |-> {Role(1, TRUE), Role(2, FALSE), Role(3, FALSE)},
     bindings |-> SetToBag({RoleBinding(1, 1)}),
     perms    |-> SetToBag({Permission(1, Owner, Wildcard),
                            Permission(2, Lender, <<"res">>),
                            Permission(3, Owner, <<"res", "sub">>)}),
     nextSA   |-> 2,
     nextRole |-> 4]

(***************************************************************************)
(* The requests the model sends.  A request is                             *)
(*   [actor, target, body, ioErr, failAt]                                  *)
(* actor the authenticated account, target the {id} of the route, failAt   *)
(* the storage call of the use case that fails (0: none).                  *)
(***************************************************************************)
PermLender == <<"svc", Lender, "act", <<"res">>>>
PermOwner == <<"svc", Owner, "act", <<"res">>>>
PermMalformed == <<"svc", Owner, "act">>

PermissionsLists ==
    {<<>>, <<PermLender>>, <<PermOwner>>, <<PermLender, PermOwner>>,
     <<PermOwner, PermOwner>>, <<PermOwner, PermMalformed>>}

AliasFor == [s \in {PermLender} |-> "al"]

Body(name, email, authType, rolesIDs, strs, aliases) ==
    [name |-> name, email |-> email, authenticationType |-> authType,
     rolesIDs |-> rolesIDs, permissionsStrings |-> strs,
     permissionsAliases |-> aliases]

Identities ==
    {[name |-> "n1", email |-> "e1", authenticationType |-> OAuth2],
     [name |-> "n1", email |-> "", authenticationType |-> KeyPair]}

\* bodies that grant inline permissions, bodies that bind roles, and one
\* that does both
GrantBodies(d, ids) ==
    {Body(i.name, i.email, i.authenticationType, <<>>, ps, <<>>) :
        i \in ids, ps \in PermissionsLists}
    \cup {Body(i.name, i.email, i.authenticationType, <<r>>, <<>>, <<>>) :
        i \in ids, r \in RoleIDs(d)}
    \cup {Body(i.name, i.email, i.authenticationType, <<2>>, <<PermLender>>, AliasFor) :
        i \in ids}

\* bodies that bind two roles
TwoRolesBodies(d, id) ==
    {Body("n1", "", KeyPair, rs, <<>>, <<>>) :
        rs \in {<<2, 3>>, <<3, 2>>}
               \cup {<<sa.baseRoleID, 3>> : sa \in {x \in d.sas : x.id = id}}}

\* bodies that fail validation
InvalidBodies ==
    {Body("", "e1", OAuth2, <<>>, <<>>, <<>>),
     Body("n1", "", OAuth2, <<>>, <<>>, <<>>),
     Body("", "", "basic", <<>>, <<>>, <<>>)}

\* the body of the requests that meet failures
FailureBody ==
    Body("n1", "e1", OAuth2, <<2>>, <<PermLender, PermOwner, PermLender>>, <<>>)

\* the storage calls a write of this body makes at most
MaxCalls(body) == Len(body.rolesIDs) + Len(body.permissionsStrings) + 4

Request(actor, target, body, ioErr, failAt) ==
    [actor |-> actor, target |-> target, body |-> body, ioErr |-> ioErr,
     failAt |-> failAt]

FailureRequests(actor, target) ==
    {Request(actor, target, FailureBody, "none", k) : k \in 1..MaxCalls(FailureBody)}
    \cup {Request(actor, target, FailureBody, e, 0) : e \in {"body", "roles", "perms"}}

CreateRequests(d) ==
    {Request(a, 0, b, "none", 0) : a \in SAIDs(d), b \in GrantBodies(d, Identities)}
    \cup {Request(1, 0, b, "none", 0) : b \in InvalidBodies \cup TwoRolesBodies(d, 1)}
    \cup FailureRequests(1, 0)

UpdateRequests(d) ==
    UNION {{Request(a, t, b, "none", 0) :
                a \in SAIDs(d),
                b \in GrantBodies(d, {[name |-> "n1", email |-> "e1",
                                       authenticationType |-> KeyPair]})
                      \cup TwoRolesBodies(d, t)} : t \in SAIDs(d)}
    \cup {Request(1, t, b, "none", 0) : t \in SAIDs(d), b \in InvalidBodies}
    \cup UNION {FailureRequests(1, t) : t \in SAIDs(d) \cup {0}}

ProviderEmails == {"e1", "e2"}
Pictures == {"", "p1"}

AuthResult(err, email, accessToken, picture) ==
    [err |-> err, email |-> email, accessToken |-> accessToken, picture |-> picture]

\* a login is [authResult, lookupErr, failAt]
LoginRequests ==
    {[authResult |-> AuthResult(ErrNone, e, <<"t1">>, p), lookupErr |-> FALSE, failAt |-> 0] :
        e \in ProviderEmails, p \in Pictures}
    \cup {[authResult |-> AuthResult(x, "", NoString, ""), lookupErr |-> FALSE, failAt |-> 0] :
        x \in {ErrOther, ErrNotFound}}
    \cup {[authResult |-> AuthResult(ErrNone, "e1", <<"t1">>, "p1"), lookupErr |-> TRUE,
           failAt |-> 0]}
    \cup {[authResult |-> AuthResult(ErrNone, "e1", <<"t1">>, "p1"), lookupErr |-> FALSE,
           failAt |-> k] : k \in 1..3}

NoBody == Body("", "", "", <<>>, <<>>, <<>>)

NoAuthResult == AuthResult(ErrNone, "", NoString, "")

\* the last request served and its answer; results are the ids of the
\* accounts a list request answered
Last(kind, req, authResult, a, err) ==
    [kind |-> kind, actor |-> req.actor, target |-> req.target, body |-> req.body,
     ioErr |-> req.ioErr, failAt |-> req.failAt, authResult |-> authResult,
     status |-> a.status, called |-> a.called, failed |-> a.failed, id |-> a.id,
     fields |-> a.fields, err |-> err, results |-> {}]

NoRequest == Request(0, 0, NoBody, "none", 0)

(***************************************************************************)
(* Spec: requests served one after the other.  prev is the store before    *)
(* the last request.                                                       *)
(***************************************************************************)
Init ==
    /\ db = SeedStore
    /\ prev = SeedStore
    /\ last = Last("none", NoRequest, NoAuthResult,
                   Answer(SeedStore, 0, FALSE, FALSE, 0, {}), ErrNone)
    /\ ops = 0
    /\ reqs = <<>>
    /\ http = NoExchange

\* POST /service_accounts
CreateRequest ==
    /\ ops < MaxOps
    /\ \E req \in CreateRequests(db) :
          LET a == serviceAccountsCreateHandler(db, req.actor, req.body, req.ioErr,
                                                req.failAt)
          IN  /\ db' = a.d
              /\ last' = Last("create", req, NoAuthResult, a, ErrNone)
    /\ prev' = db
    /\ ops' = ops + 1
    /\ UNCHANGED <<reqs, http>>

\* PUT /service_accounts/{id}
UpdateRequest ==
    /\ ops < MaxOps
    /\ \E req \in UpdateRequests(db) :
          LET a == serviceAccountsUpdateHandler(db, req.actor, req.target, req.body,
                                                req.ioErr, req.failAt)
          IN  /\ db' = a.d
              /\ last' = Last("update", req, NoAuthResult, a, ErrNone)
    /\ prev' = db
    /\ ops' = ops + 1
    /\ UNCHANGED <<reqs, http>>

\* AuthenticateAccessToken for a bearer token
Login ==
    /\ ops < MaxOps
    /\ \E l \in LoginRequests :
       \E rows \in ForEmailAnswers(db, l.authResult.email) :
          LET r == AuthenticateAccessToken(db, l.authResult, rows, l.lookupErr, l.failAt)
          IN  /\ db' = r.d
              /\ last' = Last("login",
                              Request(0, 0, NoBody,
                                      IF l.lookupErr THEN "lookup" ELSE "none", l.failAt),
                              l.authResult,
                              Answer(r.d, 0, FALSE, r.failed, r.auth.serviceAccountID, {}),
                              r.err)
    /\ prev' = db
    /\ ops' = ops + 1
    /\ UNCHANGED <<reqs, http>>

Next == CreateRequest \/ UpdateRequest \/ Login

Spec == Init /\ [][Next]_vars

(***************************************************************************)
(* Properties of Spec.                                                     *)
(***************************************************************************)
Written == last.kind \in {"create", "update"}

Range(f) == {f[i] : i \in DOMAIN f}

\* the account holds, at Owner level, a permission that covers p
OwnerHeld(d, saID, p) ==
    \E h \in ForServiceAccount(d, saID) :
        /\ h.ownershipLevel = Owner
        /\ h.service = p.service
        /\ h.action = p.action
        /\ ResourceMatches(h.resource, p.resource)

RolesImplied(d, saID, rolesIDs) ==
    \A r \in Range(rolesIDs) : \A p \in ForRole(d, r) : OwnerHeld(d, saID, p)

WellFormed(strs) == \A s \in Range(strs) : BuildPermissionOK(s)

PermsImplied(d, saID, strs) ==
    \A s \in Range(strs) : BuildPermissionOK(s) => OwnerHeld(d, saID, BuildPermission(s))

\* C1: a create or update request reaches CreateWithNested/UpdateWithNested
\* only if the acting account held, at Owner level, every permission of
\* every role of rolesIds and every inline permission; a request whose check
\* completes and answers no is answered 403, the use case is not called and
\* the store is as it was.
C1_NoEscalation ==
    Written =>
        /\ last.called =>
              /\ RolesImplied(prev, last.actor, last.body.rolesIDs)
              /\ WellFormed(last.body.permissionsStrings)
              /\ PermsImplied(prev, last.actor, last.body.permissionsStrings)
        /\ last.status \in {StatusOK, StatusCreated} => last.called
        /\ (/\ last.ioErr = "none"
            /\ \/ ~RolesImplied(prev, last.actor, last.body.rolesIDs)
               \/ /\ WellFormed(last.body.permissionsStrings)
                  /\ ~PermsImplied(prev, last.actor, last.body.permissionsStrings))
           => /\ last.status = UserDoesntHaveAllPermissionsErrorStatusCode
              /\ ~last.called
              /\ db = prev

\* an account holding only svc::Lender::act::res asked to create an account
\* with inline svc::Owner::act::res and was answered 403
C1_Witness ==
    /\ last.kind = "create"
    /\ ForServiceAccount(prev, last.actor) # {}
    /\ \A h \in ForServiceAccount(prev, last.actor) :
          PermissionString(h) = PermLender
    /\ last.body.permissionsStrings = <<PermOwner>>
    /\ last.status = UserDoesntHaveAllPermissionsErrorStatusCode

\* C2: when a storage call of CreateWithNested or UpdateWithNested fails,
\* the store afterwards is the store before the call.
C2_AllOrNothing ==
    (Written /\ last.failed) => (db = prev /\ last.status = StatusInternalServerError)

\* the create whose third of three permissions failed
C2_Witness ==
    /\ last.kind = "create"
    /\ last.failed
    /\ Len(last.body.permissionsStrings) = 3
    /\ last.failAt = 3 + Len(last.body.rolesIDs) + 3

BindingsOf(d, saID, roleID) == CopiesIn(RoleBinding(saID, roleID), d.bindings)

\* C3: after a successful update with rolesIds S the account is bound to its
\* base role and the roles of S and to no other role, and to its base role
\* once.
C3_UpdateReplacesBindings ==
    (last.kind = "update" /\ last.status = StatusOK) =>
        LET sa == GetSA(db, last.target)
        IN  /\ RolesBoundTo(db, sa.id) = {sa.baseRoleID} \cup Range(last.body.rolesIDs)
            /\ BindingsOf(db, sa.id, sa.baseRoleID) = 1

\* an update that names the base role and a new role, and drops an old one
C3_Witness ==
    /\ last.kind = "update"
    /\ last.status = StatusOK
    /\ LET sa == GetSA(db, last.target)
       IN  /\ sa.baseRoleID \in Range(last.body.rolesIDs)
           /\ \E r \in RolesBoundTo(prev, sa.id) : r \notin RolesBoundTo(db, sa.id)
           /\ \E r \in RolesBoundTo(db, sa.id) : r \notin RolesBoundTo(prev, sa.id)

\* C4: every base role is bound to exactly one account, the one whose base
\* role it is.
C4_BaseRoleNeverShared ==
    \A r \in {x \in db.roles : x.isBaseRole} :
        {b.serviceAccountID : b \in {x \in BagToSet(db.bindings) : x.roleID = r.id}}
            = {sa.id : sa \in {x \in db.sas : x.baseRoleID = r.id}}

\* C5: a login for an email that had no account leaves exactly one account
\* with that email: an OAuth2 account named after the email, with a base role
\* of its own, whose id is the one returned.
C5_FirstLoginProvisions ==
    (/\ last.kind = "login"
     /\ last.err = ErrNone
     /\ ForEmail(prev, last.authResult.email) = {}) =>
        /\ Cardinality(ForEmail(db, last.authResult.email)) = 1
        /\ \A sa \in ForEmail(db, last.authResult.email) :
              /\ sa.authenticationType = OAuth2
              /\ sa.name = last.authResult.email
              /\ sa.id = last.id
              /\ Role(sa.baseRoleID, TRUE) \in db.roles \ prev.roles

\* the permissions a body asks for, as rows of the role
RowsOf(body, roleID) ==
    LET ps == WithAliases(BuildPermissions(body.permissionsStrings).permissions,
                          body.permissionsStrings, body.permissionsAliases)
    IN  [i \in 1..Len(ps) |-> [ps[i] EXCEPT !.roleID = roleID]]

SeqToBag(f) ==
    [x \in Range(f) |-> Cardinality({i \in DOMAIN f : f[i] = x})]

PermsBagOf(d, roleID) ==
    [p \in ForRole(d, roleID) |-> d.perms[p]]

\* C10: after a successful create the permissions of the new base role are
\* the submitted ones, each at the level submitted.
C10_SubmittedLevelsStored ==
    (last.kind = "create" /\ last.status = StatusCreated) =>
        LET sa == GetSA(db, last.id)
        IN  PermsBagOf(db, sa.baseRoleID) = SeqToBag(RowsOf(last.body, sa.baseRoleID))

\* an Owner of the permission created an account with it at Lender level
C10_Witness ==
    /\ last.kind = "create"
    /\ last.status = StatusCreated
    /\ last.body.permissionsStrings = <<PermLender>>
    /\ OwnerHeld(prev, last.actor, BuildPermission(PermLender))
    /\ \E p \in ForRole(db, GetSA(db, last.id).baseRoleID) : p.ownershipLevel = Lender

\* C11: after a successful update with permissions P the permissions of the
\* account's base role are the rows of P, each with the base role's id, and
\* the permissions of every other role are as they were.
C11_UpdateReplacesPermissions ==
    (last.kind = "update" /\ last.status = StatusOK) =>
        LET sa == GetSA(db, last.target)
        IN  /\ PermsBagOf(db, sa.baseRoleID) = SeqToBag(RowsOf(last.body, sa.baseRoleID))
            /\ \A r \in (RoleIDs(db) \cup RoleIDs(prev)) \ {sa.baseRoleID} :
                  PermsBagOf(db, r) = PermsBagOf(prev, r)

\* an update that took a permission off the base role and put another on it
C11_Witness ==
    /\ last.kind = "update"
    /\ last.status = StatusOK
    /\ last.body.permissionsStrings # <<>>
    /\ LET sa == GetSA(db, last.target)
       IN  /\ \E p \in ForRole(prev, sa.baseRoleID) : p \notin ForRole(db, sa.baseRoleID)
           /\ \E p \in ForRole(db, sa.baseRoleID) : p \notin ForRole(prev, sa.baseRoleID)

\* C12: every account's baseRoleID names a role of the store that is a base
\* role, the account is bound to it, and an account written by the last
\* request got its base role from the same request.
C12_BaseRoleBound ==
    \A sa \in db.sas :
        /\ Role(sa.baseRoleID, TRUE) \in db.roles
        /\ BindingsOf(db, sa.id, sa.baseRoleID) >= 1
        /\ sa.id \notin SAIDs(prev) => sa.baseRoleID \notin RoleIDs(prev)

\* an account made by a create or a login was then updated with other roles
C12_Witness ==
    /\ last.kind = "update"
    /\ last.status = StatusOK
    /\ last.target # 1
    /\ last.body.rolesIDs # <<>>
    /\ db # prev

\* C13: a login for an email that has an account leaves the store as it was
\* but for the picture of that account, which becomes the provider's when
\* that one is not empty and differs, and stays as it was otherwise.
C13_RepeatLoginWritesPictureOnly ==
    (last.kind = "login" /\ ForEmail(prev, last.authResult.email) # {}) =>
        \/ db = prev /\ last.err # ErrNone
        \/ /\ last.err = ErrNone
           /\ \E sa \in ForEmail(prev, last.authResult.email) :
                 /\ last.id = sa.id
                 /\ db = [prev EXCEPT !.sas = (@ \ {sa}) \cup
                            {[sa EXCEPT !.picture =
                                IF last.authResult.picture \notin {"", sa.picture}
                                THEN last.authResult.picture ELSE @]}]

\* a second login brought a picture and the account got it
C13_Witness ==
    /\ last.kind = "login"
    /\ last.err = ErrNone
    /\ \E sa \in ForEmail(prev, last.authResult.email) :
          /\ sa.picture # last.authResult.picture
          /\ GetSA(db, sa.id).picture = last.authResult.picture

\* the request passes the authorization of the handler
Authorized ==
    /\ last.ioErr = "none"
    /\ RolesImplied(prev, last.actor, last.body.rolesIDs)
    /\ WellFormed(last.body.permissionsStrings)
    /\ PermsImplied(prev, last.actor, last.body.permissionsStrings)

\* C15: a create or update request with a permission string that does not
\* parse, and whose roles the acting account owns, is answered 422 and writes
\* nothing.
C15_MalformedPermissionUnprocessable ==
    (/\ Written
     /\ last.ioErr = "none"
     /\ RolesImplied(prev, last.actor, last.body.rolesIDs)
     /\ ~WellFormed(last.body.permissionsStrings)) =>
        /\ last.status = StatusUnprocessableEntity
        /\ ~last.called
        /\ db = prev

\* the rules of the identity fields that a body violates
RulesViolated(body) ==
    {r \in {"name required"} : body.name = ""}
    \cup {r \in {"type is oauth2 or keypair"} : body.authenticationType \notin {OAuth2, KeyPair}}
    \cup {r \in {"email required"} : body.authenticationType = OAuth2 /\ body.email = ""}

\* C16: an authorized create or update request whose body violates a rule is
\* answered 422 with one field in error per rule violated, the use case is
\* not called and the store is as it was; a body that violates none reaches
\* the use case.
C16_ValidationUnprocessable ==
    (Written /\ Authorized) =>
        IF RulesViolated(last.body) # {}
        THEN /\ last.status = StatusUnprocessableEntity
             /\ Cardinality(last.fields) = Cardinality(RulesViolated(last.body))
             /\ "name" \in last.fields <=> last.body.name = ""
             /\ "email" \in last.fields <=>
                   (last.body.authenticationType = OAuth2 /\ last.body.email = "")
             /\ ~last.called
             /\ db = prev
        ELSE /\ last.called
             /\ last.fields = {}

\* a body without name and with an unknown authentication type
C16_Witness ==
    /\ Written
    /\ Authorized
    /\ last.status = StatusUnprocessableEntity
    /\ Cardinality(last.fields) = 2
    /\ ~last.called

\* C20: an update that submits the email the account has, with a name that
\* is not that email, leaves the account with that email.
C20_EmailKeptAcrossUpdate ==
    (/\ last.kind = "update"
     /\ last.status = StatusOK
     /\ last.body.email # ""
     /\ last.body.name # last.body.email
     /\ GetSA(prev, last.target).email = last.body.email) =>
        GetSA(db, last.target).email = last.body.email

\* C21: both Owner checks answer yes for an empty list whoever asks, so an
\* update of an existing account with empty rolesIds and permissions and
\* valid identity fields is answered 200 whatever the acting account holds,
\* and leaves the target bound to its base role only, with no permission on
\* that base role.
C21_EmptyListsAuthorizeAnyCaller ==
    /\ \A a \in SAIDs(db) \cup {0} :
          /\ HasAllOwnerPermissions(db, a, <<>>).has
          /\ HasAllOwnerRolesPermissions(db, a, <<>>)
    /\ (/\ last.kind = "update"
        /\ last.ioErr = "none"
        /\ last.failAt = 0
        /\ last.target \in SAIDs(prev)
        /\ last.body.rolesIDs = <<>>
        /\ last.body.permissionsStrings = <<>>
        /\ RulesViolated(last.body) = {}) =>
           /\ last.status = StatusOK
           /\ RolesBoundTo(db, last.target) = {GetSA(db, last.target).baseRoleID}
           /\ ForRole(db, GetSA(db, last.target).baseRoleID) = {}

\* an account that holds no permission took every permission off the base
\* role of another account
C21_Witness ==
    /\ last.kind = "update"
    /\ last.status = StatusOK
    /\ last.actor \in SAIDs(prev)
    /\ last.actor # last.target
    /\ ForServiceAccount(prev, last.actor) = {}
    /\ last.body.rolesIDs = <<>>
    /\ last.body.permissionsStrings = <<>>
    /\ ForRole(prev, GetSA(prev, last.target).baseRoleID) # {}
    /\ ForRole(db, GetSA(db, last.target).baseRoleID) = {}

(***************************************************************************)
(* SpecAuth: one request through authMiddleware, against the seeded store  *)
(* or the store after a first login of e1.                                 *)
(***************************************************************************)
\* atoms of an Authorization header
MaxHeaderLen == 5

HeaderAtoms == {"Bearer", "KeyPair", " ", ":", "k1", "s1"}

Headers == UNION {[1..n -> HeaderAtoms] : n \in 0..MaxHeaderLen}

\* the provider's answers to a bearer token
ProviderAnswers ==
    {AuthResult(ErrNone, "e1", <<"k1">>, "p1"),
     AuthResult(ErrNone, "e2", <<"s1">>, ""),
     AuthResult(ErrNotFound, "", NoString, ""),
     AuthResult(ErrOther, "", NoString, "")}

StoreAfterLogin ==
    AuthenticateAccessToken(SeedStore, AuthResult(ErrNone, "e1", <<"k1">>, ""), {},
                            FALSE, 0).d

InitAuth ==
    /\ db \in {SeedStore, StoreAfterLogin}
    /\ prev = db
    /\ last = Last("none", NoRequest, NoAuthResult,
                   Answer(SeedStore, 0, FALSE, FALSE, 0, {}), ErrNone)
    /\ ops = 0
    /\ reqs = <<>>
    /\ http = NoExchange

\* a request arrives and authMiddleware serves it
ServeAuth ==
    /\ http = NoExchange
    /\ \E header \in Headers :
       \E authResult \in IF header # <<>> /\ header[1] = "Bearer"
                         THEN ProviderAnswers ELSE {NoAuthResult} :
       \E lookupErr \in IF header # <<>> /\ header[1] \in {"Bearer", "KeyPair"}
                        THEN BOOLEAN ELSE {FALSE} :
       \E rows \in ForEmailAnswers(db, authResult.email) :
          LET x == authMiddleware(db, header, authResult, rows, lookupErr, 0)
          IN  /\ http' = [x EXCEPT !.d = <<>>]
              /\ db' = x.d
    /\ prev' = db
    /\ UNCHANGED <<last, ops, reqs>>

NextAuth == ServeAuth

SpecAuth == InitAuth /\ [][NextAuth]_vars

Served == http.useCase # "idle"

Count(s, a) == Cardinality({i \in 1..Len(s) : s[i] = a})

\* the part of the header before its first space, and the part after it
Scheme(header) ==
    SubSeq(header, 1, (CHOOSE i \in 1..Len(header) : header[i] = " " /\ \A j \in 1..(i - 1) : header[j] # " ") - 1)

\* a header that is empty, is not "<scheme> <credential>", names a scheme
\* other than Bearer and KeyPair, or is a KeyPair header without a colon
Malformed(header) ==
    \/ header = <<>>
    \/ Count(header, " ") # 1
    \/ Scheme(header) \notin {<<"Bearer">>, <<"KeyPair">>}
    \/ Scheme(header) = <<"KeyPair">> /\ Count(header, ":") = 0

\* C6: a request with a malformed Authorization header is answered 401,
\* no authentication use case is called and the next handler is not invoked.
C6_MalformedHeaderUnauthorized ==
    (Served /\ Malformed(http.header)) =>
        /\ http.status = StatusUnauthorized
        /\ http.useCase = "none"
        /\ http.next = 0

\* C7: an authentication that ends in EntityNotFoundError is answered 401,
\* for a bearer token and for a key pair.
C7_NotFoundUnauthorized ==
    (Served /\ http.err = ErrNotFound) => http.status = StatusUnauthorized

\* the account the credential of the exchange names: the one with the key
\* pair of a KeyPair header, the one with the email the provider answered
Authenticated(d, x) ==
    IF x.useCase = "AuthenticateKeyPair"
    THEN LET keyPair == Split(Split(x.header, " ")[2], ":")
         IN  {sa.id : sa \in ForKeyPair(d, keyPair[1], keyPair[2])}
    ELSE {sa.id : sa \in {y \in d.sas : <<"x-email", y.email>> \in x.headers}}

\* C14: authMiddleware invokes the next handler once when the authentication
\* use case was called and returned no error, and never otherwise; when it
\* does, it has written no status and the request context carries the id of
\* the account the credential names.
C14_NextIffAuthenticated ==
    Served =>
        /\ http.next \in {0, 1}
        /\ (http.next = 1) <=>
              (http.useCase # "none" /\ http.err = ErrNone /\ ~http.panicked)
        /\ (http.next = 1) =>
              /\ http.status = 0
              /\ http.ctxID \in Authenticated(db, http)

\* a bearer token of an email without account: the account is provisioned
\* and the next handler gets its id
C14_Witness ==
    /\ Served
    /\ http.next = 1
    /\ http.useCase = "AuthenticateAccessToken"
    /\ http.ctxID \in SAIDs(db) \ SAIDs(prev)

(***************************************************************************)
(* SpecConc: requests served by concurrent threads.  A create or update    *)
(* request checks the roles, then checks the permissions, both outside any *)
(* transaction, then validates and writes in one transaction.  A login     *)
(* asks the provider and looks the email up, then creates the account or   *)
(* updates the picture.  Each thread serves one request.                   *)
(***************************************************************************)
\* threads serving requests at the same time
MaxThreads == 2

Threads == 1..MaxThreads

Thread(pc, kind, req, sawn, authResult, rows, status, id) ==
    [pc |-> pc, kind |-> kind, req |-> req, sawn |-> sawn, authResult |-> authResult,
     rows |-> rows, status |-> status, id |-> id]

IdleThread == Thread("idle", "none", NoRequest, SawnOf(NoBody), NoAuthResult, {}, 0, 0)

ConcBodies ==
    {Body("n1", "", KeyPair, <<>>, <<PermOwner>>, <<>>),
     Body("n1", "", KeyPair, <<2>>, <<>>, <<>>),
     Body("n1", "", KeyPair, <<>>, <<>>, <<>>)}

ConcRequests(d) ==
    {[kind |-> "create", req |-> Request(a, 0, b, "none", 0)] :
        a \in SAIDs(d), b \in ConcBodies}
    \cup {[kind |-> "update", req |-> Request(a, t, b, "none", 0)] :
        a \in SAIDs(d), t \in SAIDs(d), b \in ConcBodies}

ConcLogins == {AuthResult(ErrNone, "e1", <<"t1">>, p) : p \in Pictures}

InitConc ==
    /\ db = SeedStore
    /\ prev = SeedStore
    /\ last = Last("none", NoRequest, NoAuthResult,
                   Answer(SeedStore, 0, FALSE, FALSE, 0, {}), ErrNone)
    /\ ops = 0
    /\ reqs = [t \in Threads |-> IdleThread]
    /\ http = NoExchange

\* processServiceAccountWithNestedFromReq up to the check of the roles
CheckRoles(t) ==
    /\ reqs[t].pc = "idle"
    /\ \E c \in ConcRequests(db) :
          LET r == processRoles(db, c.req.actor, c.req.body, c.req.ioErr)
          IN  reqs' = [reqs EXCEPT ![t] =
                        IF r.err # ErrNone
                        THEN Thread("done", c.kind, c.req, r.sawn, NoAuthResult, {},
                                    ProcessErrorStatus(r.err), 0)
                        ELSE Thread("rolesChecked", c.kind, c.req, r.sawn,
                                    NoAuthResult, {}, 0, 0)]
    /\ UNCHANGED <<db, prev, last, ops, http>>

\* processServiceAccountWithNestedFromReq from BuildPermissions on
CheckPermissions(t) ==
    /\ reqs[t].pc = "rolesChecked"
    /\ LET r == processPermissions(db, reqs[t].req.actor, reqs[t].sawn, reqs[t].req.ioErr)
       IN  reqs' = [reqs EXCEPT ![t] =
                     IF r.err # ErrNone
                     THEN [@ EXCEPT !.pc = "done", !.status = ProcessErrorStatus(r.err)]
                     ELSE [@ EXCEPT !.pc = "checked", !.sawn = r.sawn]]
    /\ UNCHANGED <<db, prev, last, ops, http>>

\* Validate and the transaction of CreateWithNested or UpdateWithNested
Write(t) ==
    /\ reqs[t].pc = "checked"
    /\ LET a == IF reqs[t].kind = "create"
                THEN createValidated(db, reqs[t].sawn, reqs[t].req.failAt)
                ELSE updateValidated(db, reqs[t].req.target, reqs[t].sawn,
                                     reqs[t].req.failAt)
       IN  /\ db' = a.d
           /\ reqs' = [reqs EXCEPT ![t] = [@ EXCEPT !.pc = "done", !.status = a.status,
                                                    !.id = a.id]]
    /\ prev' = db
    /\ UNCHANGED <<last, ops, http>>

\* AuthenticateAccessToken up to the answer of ForEmail
Lookup(t) ==
    /\ reqs[t].pc = "idle"
    /\ \E authResult \in ConcLogins :
       \E rows \in ForEmailAnswers(db, authResult.email) :
          reqs' = [reqs EXCEPT ![t] =
                    Thread("lookedUp", "login", NoRequest, SawnOf(NoBody), authResult,
                           rows, 0, 0)]
    /\ UNCHANGED <<db, prev, last, ops, http>>

\* AuthenticateAccessToken after the lookup
LoginWrite(t) ==
    /\ reqs[t].pc = "lookedUp"
    /\ LET r == AuthenticateAccessTokenWrite(db, reqs[t].authResult, reqs[t].rows, 0)
       IN  /\ db' = r.d
           /\ reqs' = [reqs EXCEPT ![t] = [@ EXCEPT !.pc = "done",
                                                    !.id = r.auth.serviceAccountID]]
    /\ prev' = db
    /\ UNCHANGED <<last, ops, http>>

NextConc ==
    \E t \in Threads :
        \/ CheckRoles(t)
        \/ CheckPermissions(t)
        \/ Write(t)
        \/ Lookup(t)
        \/ LoginWrite(t)

SpecConc == InitConc /\ [][NextConc]_vars

\* C8: when the write transaction of a request starts, the acting account
\* holds at Owner level what the request grants, in the store as it is then.
C8_ChecksHoldAtTransactionStart ==
    \A t \in Threads :
        reqs[t].pc = "checked" =>
            /\ RolesImplied(db, reqs[t].req.actor, reqs[t].req.body.rolesIDs)
            /\ PermsImplied(db, reqs[t].req.actor, reqs[t].req.body.permissionsStrings)

\* C9: no two accounts have the same email of the provider.
C9_EmailUnique ==
    \A e \in ProviderEmails : Cardinality(ForEmail(db, e)) <= 1

(***************************************************************************)
(* pkg/http: the middleware a service embeds to ask Will.IAM whether the   *)
(* caller holds a permission.  A relay is one request through it:          *)
(*   pc            - "idle", "waiting" (the request to IAM is in flight),  *)
(*                   "done"                                                *)
(*   enabled       - william.enabled                                       *)
(*   header        - the Authorization header received                     *)
(*   sent          - the requests sent to IAM                              *)
(*   authorization - the Authorization header of the request to IAM        *)
(*   permission    - the permission asked for                              *)
(*   answer        - what IAM answered                                     *)
(*   status        - the status the middleware wrote (0: none)             *)
(*   next          - the times the wrapped handler was invoked             *)
(*   headers       - the response headers set                              *)
(***************************************************************************)
Relay(pc, enabled, header, sent, authorization, perm, answer, status, next, headers) ==
    [pc |-> pc, enabled |-> enabled, header |-> header, sent |-> sent,
     authorization |-> authorization, permission |-> perm, answer |-> answer,
     status |-> status, next |-> next, headers |-> headers]

\* what client.Do returns: an error, or a response
IamAnswer(err, code, token, email) ==
    [err |-> err, code |-> code, token |-> token, email |-> email]

NoIamAnswer == IamAnswer(FALSE, 0, NoString, "")

NoRelay == Relay("idle", FALSE, <<>>, 0, NoString, <<>>, NoIamAnswer, 0, 0, {})

\* permission.build
build(service, ownershipLevel, action, resource) ==
    <<service, ownershipLevel, action, resource>>

\* accessTokenFromHeader: strings.Split never answers an empty slice
accessTokenFromHeader(header) ==
    LET parts == Split(header, " ")
    IN  IF Len(parts) < 1 THEN NoString ELSE parts[1]

\* ServeHTTP up to client.Do of getAuthStatus
ServeHTTPRequest(enabled, header, perm) ==
    LET token == accessTokenFromHeader(header)
    IN  IF ~enabled
        THEN Relay("done", enabled, header, 0, NoString, <<>>, NoIamAnswer, 0, 1, {})
        ELSE IF token = NoString
        THEN Relay("done", enabled, header, 0, NoString, <<>>, NoIamAnswer,
                   StatusUnauthorized, 0, {})
        ELSE \* req.Header.Set("Authorization", token)
             Relay("waiting", enabled, header, 1, token, perm, NoIamAnswer, 0, 0, {})

\* ServeHTTPAnswer taking an error of getAuthStatus for a grant
ServeHTTPAnswer_ErrorPasses(x, answer) ==
    IF answer.err
    THEN [x EXCEPT !.pc = "done", !.answer = answer, !.next = @ + 1]
    ELSE IF answer.code # StatusOK
    THEN [x EXCEPT !.pc = "done", !.answer = answer, !.status = answer.code]
    ELSE [x EXCEPT !.pc = "done", !.answer = answer, !.next = @ + 1,
                   !.headers =
                       {<<"x-access-token", t>> :
                           t \in {y \in {answer.token} : y # NoString /\ y # x.authorization}}
                       \cup {<<"x-email", e>> : e \in {y \in {answer.email} : y # ""}}]

\* ServeHTTP from the return of client.Do on; x.authorization is the token
ServeHTTPAnswer(x, answer) ==
    IF answer.err
    THEN [x EXCEPT !.pc = "done", !.answer = answer,
                   !.status = StatusInternalServerError]
    ELSE IF answer.code # StatusOK
    THEN [x EXCEPT !.pc = "done", !.answer = answer, !.status = answer.code]
    ELSE [x EXCEPT !.pc = "done", !.answer = answer, !.next = @ + 1,
                   !.headers =
                       {<<"x-access-token", t>> :
                           t \in {y \in {answer.token} : y # NoString /\ y # x.authorization}}
                       \cup {<<"x-email", e>> : e \in {y \in {answer.email} : y # ""}}]

(***************************************************************************)
(* SpecMw: one request through the pkg/http middleware.                    *)
(***************************************************************************)
MwHeaderAtoms == {"Bearer", " ", "t1"}

MwHeaders == UNION {[1..n -> MwHeaderAtoms] : n \in 0..MaxHeaderLen}

MwPermission == build("svc", Lender, "act", <<"res">>)

IamAnswers ==
    {IamAnswer(TRUE, 0, NoString, "")}
    \cup {IamAnswer(FALSE, c, t, e) :
            c \in {StatusOK, StatusUnauthorized,
                   UserDoesntHaveAllPermissionsErrorStatusCode,
                   StatusInternalServerError},
            t \in {NoString, <<"Bearer">>, <<"t1">>},
            e \in {"", "e1"}}

InitMw ==
    /\ db = SeedStore
    /\ prev = SeedStore
    /\ last = Last("none", NoRequest, NoAuthResult,
                   Answer(SeedStore, 0, FALSE, FALSE, 0, {}), ErrNone)
    /\ ops = 0
    /\ reqs = <<>>
    /\ http = NoRelay

\* a request arrives at the middleware
MwReceive ==
    /\ http.pc = "idle"
    /\ \E enabled \in BOOLEAN : \E header \in MwHeaders :
          http' = ServeHTTPRequest(enabled, header, MwPermission)
    /\ UNCHANGED <<db, prev, last, ops, reqs>>

\* client.Do returns
MwAnswer ==
    /\ http.pc = "waiting"
    /\ \E answer \in IamAnswers : http' = ServeHTTPAnswer(http, answer)
    /\ UNCHANGED <<db, prev, last, ops, reqs>>

NextMw == MwReceive \/ MwAnswer

SpecMw == InitMw /\ [][NextMw]_vars

\* a header "<scheme> <credential>"
SchemeAndCredential(header) ==
    /\ Count(header, " ") = 1
    /\ Head(header) # " "
    /\ header[Len(header)] # " "

\* C17: for a header "<scheme> <credential>" the Authorization header of the
\* request to IAM is the header received.
C17_AuthorizationForwarded ==
    (http.pc # "idle" /\ http.enabled /\ SchemeAndCredential(http.header)) =>
        /\ http.sent = 1
        /\ http.authorization = http.header

\* C18: enabled, the wrapped handler is invoked once when IAM answered 200
\* and never otherwise; another status is relayed, an error of the call is
\* answered 500, an empty header 401 without a request to IAM.  Disabled,
\* the wrapped handler is invoked and no request goes to IAM.
C18_NextIffGranted ==
    http.pc = "done" =>
        IF http.enabled
        THEN /\ http.next \in {0, 1}
             /\ (http.next = 1) <=>
                   (http.sent = 1 /\ ~http.answer.err /\ http.answer.code = StatusOK)
             /\ (http.sent = 1 /\ ~http.answer.err /\ http.answer.code # StatusOK) =>
                   http.status = http.answer.code
             /\ (http.sent = 1 /\ http.answer.err) =>
                   http.status = StatusInternalServerError
             /\ (http.header = <<>>) =>
                   (http.status = StatusUnauthorized /\ http.sent = 0)
        ELSE http.next = 1 /\ http.sent = 0 /\ http.status = 0

\* IAM answered 403 and the middleware relayed it
C18_Witness ==
    /\ http.pc = "done"
    /\ http.enabled
    /\ http.sent = 1
    /\ http.answer.code = UserDoesntHaveAllPermissionsErrorStatusCode
    /\ http.status = UserDoesntHaveAllPermissionsErrorStatusCode
    /\ http.next = 0

(***************************************************************************)
(* api: the handlers that list service accounts by permission.  The        *)
(* request carries the acting account, the "permission" parameter of the   *)
(* query (absent: <<>>) and ioErr, the step that fails on I/O: "options"   *)
(* (buildListOptions), "check" (the storage read of the Owner check),      *)
(* "list" (the storage read of the list), or "none".                       *)
(***************************************************************************)
StatusForbidden == 403
\* errors.UserDoesntHavePermissionError.StatusCode()
UserDoesntHavePermissionErrorStatusCode == 403

\* ServiceAccounts.HasPermission
HasPermission(d, saID, p) == IsPresent(p, ForServiceAccount(d, saID))

\* ServiceAccounts.ListWithPermission: the ids of the accounts that hold p
ListWithPermissionIDs(d, p) == {id \in SAIDs(d) : HasPermission(d, id, p)}

ListAnswer(status, called, results) ==
    [status |-> status, called |-> called, results |-> results]

\* serviceAccounts.ListWithPermission: [err, results]
ListWithPermission(d, saID, p, ioErr) ==
    LET rootPermission == [p EXCEPT !.ownershipLevel = Owner]
    IN  IF ioErr = "check" THEN [err |-> ErrOther, results |-> {}]
        ELSE IF ~HasPermission(d, saID, rootPermission)
        THEN [err |-> ErrInsufficient, results |-> {}]
        ELSE IF ioErr = "list" THEN [err |-> ErrOther, results |-> {}]
        ELSE [err |-> ErrNone, results |-> ListWithPermissionIDs(d, p)]

\* api.serviceAccountsListWithPermissionHandler; an absent parameter is the
\* empty string
serviceAccountsListWithPermissionHandler(d, saID, query, ioErr) ==
    LET str == IF query = <<>> THEN <<"">> ELSE query[1]
        r   == ListWithPermission(d, saID, BuildPermission(str), ioErr)
    IN  IF ioErr = "options" THEN ListAnswer(StatusUnprocessableEntity, FALSE, {})
        ELSE IF ~BuildPermissionOK(str)
        THEN ListAnswer(StatusUnprocessableEntity, FALSE, {})
        ELSE IF r.err = ErrInsufficient
        THEN ListAnswer(UserDoesntHavePermissionErrorStatusCode, TRUE, {})
        ELSE IF r.err # ErrNone
        THEN ListAnswer(StatusInternalServerError, TRUE, {})
        ELSE ListAnswer(StatusOK, TRUE, r.results)

\* serviceAccountsListHandler of the handlers file that lists by the
\* "permission" parameter: "has, _ := uc.HasAllOwnerPermissions(...)" drops
\* the error, and HasAllOwnerPermissions answers false with an error
serviceAccountsListHandler(d, saID, query, ioErr) ==
    IF ioErr = "options" THEN ListAnswer(StatusUnprocessableEntity, FALSE, {})
    ELSE IF query = <<>>
    THEN IF ioErr = "list" THEN ListAnswer(StatusInternalServerError, TRUE, {})
         ELSE ListAnswer(StatusOK, TRUE, SAIDs(d))
    ELSE IF ~BuildPermissionOK(query[1])
    THEN ListAnswer(StatusUnprocessableEntity, FALSE, {})
    ELSE LET permission == BuildPermission(query[1])
             has == IF ioErr = "check" THEN FALSE
                    ELSE HasAllOwnerPermissions(d, saID, <<permission>>).has
         IN  IF ~has THEN ListAnswer(StatusForbidden, FALSE, {})
             ELSE IF ioErr = "list" THEN ListAnswer(StatusInternalServerError, TRUE, {})
             ELSE ListAnswer(StatusOK, TRUE, ListWithPermissionIDs(d, permission))

(***************************************************************************)
(* SpecList: the requests of Spec and the list requests, served one after  *)
(* the other.                                                              *)
(***************************************************************************)
Queries == {<<>>, <<PermLender>>, <<PermOwner>>, <<PermMalformed>>}

ListRequests(d) ==
    {Request(a, 0, Body("", "", "", <<>>, q, <<>>), "none", 0) :
        a \in SAIDs(d), q \in Queries}
    \cup {Request(a, 0, Body("", "", "", <<>>, <<PermLender>>, <<>>), e, 0) :
        a \in SAIDs(d), e \in {"options", "check", "list"}}

\* GET /service_accounts?permission=..., the handlers file that checks with
\* HasAllOwnerPermissions
ListRequest ==
    /\ ops < MaxOps
    /\ \E req \in ListRequests(db) :
          LET a == serviceAccountsListHandler(db, req.actor, req.body.permissionsStrings,
                                              req.ioErr)
          IN  last' = [Last("list", req, NoAuthResult,
                            Answer(db, a.status, a.called, FALSE, 0, {}), ErrNone)
                          EXCEPT !.results = a.results]
    /\ db' = db
    /\ prev' = db
    /\ ops' = ops + 1
    /\ UNCHANGED <<reqs, http>>

\* GET /service_accounts/with_permission?permission=...
ListWithPermissionRequest ==
    /\ ops < MaxOps
    /\ \E req \in ListRequests(db) :
          LET a == serviceAccountsListWithPermissionHandler(
                       db, req.actor, req.body.permissionsStrings, req.ioErr)
          IN  last' = [Last("listWithPermission", req, NoAuthResult,
                            Answer(db, a.status, a.called, FALSE, 0, {}), ErrNone)
                          EXCEPT !.results = a.results]
    /\ db' = db
    /\ prev' = db
    /\ ops' = ops + 1
    /\ UNCHANGED <<reqs, http>>

NextList ==
    \/ CreateRequest
    \/ UpdateRequest
    \/ Login
    \/ ListRequest
    \/ ListWithPermissionRequest

SpecList == Init /\ [][NextList]_vars

Checked == last.kind \in {"create", "update", "list", "listWithPermission"}

\* the request reached a storage read of its Owner check, and that read
\* failed
CheckFailed ==
    \/ /\ Written
       /\ \/ last.ioErr = "roles"
          \/ /\ last.ioErr = "perms"
             /\ RolesImplied(prev, last.actor, last.body.rolesIDs)
             /\ WellFormed(last.body.permissionsStrings)
    \/ /\ last.kind \in {"list", "listWithPermission"}
       /\ last.ioErr = "check"
       /\ last.body.permissionsStrings # <<>>
       /\ WellFormed(last.body.permissionsStrings)

\* the Owner check of the request, evaluated on the store, answers no
CheckAnswersNo ==
    \/ ~RolesImplied(prev, last.actor, last.body.rolesIDs)
    \/ ~PermsImplied(prev, last.actor, last.body.permissionsStrings)

\* C19: a request whose Owner check met a storage failure is answered 500,
\* and a request is answered 403 only when its check met no failure and
\* answers no.
C19_StorageFailureNotDenial ==
    Checked =>
        /\ CheckFailed => last.status = StatusInternalServerError
        /\ last.status = StatusForbidden => (~CheckFailed /\ CheckAnswersNo)

====
